---- MODULE Spec2Model ----
(***************************************************************************)
(* The engine scheduler (createEngineMachine) and the operation workers    *)
(* (createOperationMachine) of src/index.js.                               *)
(*                                                                         *)
(* Every handler is one action.  xstate delivers sendParent synchronously: *)
(* the engine interpreter queues an event sent while it is processing and  *)
(* flushes the queue before it returns, and otherwise processes the event  *)
(* inside the sender's call.  So the NODE_UPDATED a worker emits is merged *)
(* (and the engine's `always` guard re-evaluated) inside the handler that  *)
(* emitted it, and it is part of that action here.                         *)
(***************************************************************************)
EXTENDS Integers, Sequences, FiniteSets

\* ------------------------------------------------------------------ bounds
MaxLimit == 4      \* largest operationsLimit of a run without a seed pool
PoolLimit == 3     \* largest operationsLimit of a run with a seed pool
MaxPool == 2       \* largest seed nodePool
MaxChecks == 1     \* failed checks the check collaborator answers per worker
MergeTimes == 2    \* times the isolated merge applies the same report
TimedLimit == 2    \* largest operationsLimit of the runs in which time passes
MaxTime == 1       \* largest value of the logical clock (Date.now())

VARIABLES
  engineState,      \* engine state.value: "running" | "done"
  operations,       \* engine context.operations: the spawned workers, in spawn order
  nodes,            \* engine context.nodes: node id -> last merged node record
  operationsLimit,  \* engine context.operationsLimit (configuration)
  nodePoolMode,     \* engine context.nodePoolMode (configuration)
  nodePool,         \* engine context.nodePool: the seed nodes, defaults applied
  idCounter,        \* module-level idCounter
  now,              \* logical clock read by Date.now()
  statsRuns,        \* number of times the `done` entry action has run
  sent,             \* per worker, the NODE_UPDATED nodes it sent to the engine, in order
  instants,         \* per worker, the clock when it was spawned, when its operator
                    \* call resolved and when its passing check was processed
  harness           \* inputs and results of the NODE_UPDATED merge applied in isolation

vars == <<engineState, operations, nodes, operationsLimit, nodePoolMode, nodePool,
          idCounter, now, statsRuns, sent, instants, harness>>

\* ------------------------------------------------------- JavaScript objects
\* An object is a function from its own keys to values; {...a, ...b}.
Spread(a, b) ==
  [k \in (DOMAIN a) \cup (DOMAIN b) |-> IF k \in DOMAIN b THEN b[k] ELSE a[k]]

\* a value that is absent (undefined) where a number is expected
Undefined == 0 - 1

\* truthiness of obj[key] for a boolean-valued key (undefined is falsy)
Truthy(obj, key) == key \in DOMAIN obj /\ obj[key] = TRUE

\* obj[key] === false
IsFalse(obj, key) == key \in DOMAIN obj /\ obj[key] = FALSE

\* The first key of an object whose keys are integers: integer keys are
\* enumerated in ascending order.
FirstKey(S) == CHOOSE i \in S : \A j \in S : i <= j

\* ------------------------------------------------------------ collaborators
\* Values an operator may answer in `value` (Joi.any()): here a number, which
\* the check compares as a string with the text of the page.
Values == {[t |-> "number", v |-> 1]}

\* value.toString()
toString(x) == IF x.t = "number" THEN (IF x.v = 1 THEN "1" ELSE "0") ELSE x.v

\* Responses of operators.create / operators.update that pass createResSchema.
Responses ==
  {[pagePath |-> "/p", selector |-> "h1", value |-> x] : x \in Values}

\* Results of checkIfDeployed: {statusCode} when got() threw, {value, statusCode}
\* otherwise, value being the rawText (a string) of the selected element.
DeployedResults ==
  {[statusCode |-> 404]} \cup {[value |-> s, statusCode |-> 200] : s \in {"1", "2"}}

\* Results of checkIf404.
NotFoundResults == {[statusCode |-> 404], [statusCode |-> 200]}

\* ------------------------------------------------------------------ engine
\* The seed pool after the defaults of createEngineMachine are applied: seed i
\* is {id: i} or {id: i, inFlight: true}; a key of the seed wins over a default.
SeedNode(i, inFlightGiven) ==
  Spread([inFlight |-> FALSE, existsOnCMS |-> TRUE, published |-> TRUE],
         IF inFlightGiven THEN [id |-> i, inFlight |-> TRUE] ELSE [id |-> i])

\* HasNodePool with the bound off by one: a single seed is not a pool.
HasNodePool_OffByOne(pool) == Len(pool) > 1

\* context.nodePool?.length > 0
HasNodePool(pool) == Len(pool) > 0

\* context.nodes = {}; context.nodePool.forEach((n) => (context.nodes[n.id] = n))
SeedRegistry(pool) ==
  [k \in {pool[i].id : i \in 1..Len(pool)} |->
     pool[CHOOSE i \in 1..Len(pool) :
            /\ pool[i].id = k
            /\ \A j \in 1..Len(pool) : pool[j].id = k => j <= i]]

\* readyToBeDone with > for >=.
readyToBeDone_Strict(ops, limit) ==
  /\ Len(ops) > limit
  /\ ~ \E i \in 1..Len(ops) : ops[i].state # "completed"

\* readyToBeDone satisfied by a single completed worker.
readyToBeDone_Some(ops, limit) ==
  /\ Len(ops) >= limit
  /\ \E i \in 1..Len(ops) : ops[i].state = "completed"

\* readyToBeDone accepting every final worker state, not only `completed`.
readyToBeDone_AnyFinal(ops, limit) ==
  /\ Len(ops) >= limit
  /\ ~ \E i \in 1..Len(ops) : ops[i].state \notin {"completed", "failure"}

\* context.operations.length >= context.operationsLimit &&
\* !context.operations.some((op) => op.state.value !== `completed`)
readyToBeDone(ops, limit) ==
  /\ Len(ops) >= limit
  /\ ~ \E i \in 1..Len(ops) : ops[i].state # "completed"

\* The eventless transition of `running`, taken after every event processed there.
always(ops, limit) == IF readyToBeDone(ops, limit) THEN "done" ELSE "running"

\* createOperationMachine(context): the initial context of a worker.  The
\* non-function members of its assign() objects are evaluated here, once.
createOperationMachine(id, verb, node) ==
  [id |-> id, verb |-> verb, node |-> node, state |-> "running",
   checks |-> <<>>, checkCount |-> 0, error |-> "none",
   staticNow |-> now,
   createdAt |-> Undefined, completedAt |-> Undefined, latency |-> Undefined]

\* NODE_UPDATED merging the reported fields into the stored record.
NODE_UPDATED_Fieldwise(registry, node) ==
  [k \in (DOMAIN registry) \cup {node.id} |->
     IF k = node.id
       THEN (IF k \in DOMAIN registry THEN Spread(registry[k], node) ELSE node)
       ELSE registry[k]]

\* NODE_UPDATED without the spread of the registry: only the reported node is kept.
NODE_UPDATED_OnlyReported(registry, node) ==
  [k \in {node.id} |-> node]

\* NODE_UPDATED keeping the record already stored under the id.
NODE_UPDATED_KeepExisting(registry, node) ==
  [k \in (DOMAIN registry) \cup {node.id} |->
     IF k \in DOMAIN registry THEN registry[k] ELSE node]

\* { ...context.nodes, [event.node.id]: event.node }
NODE_UPDATED(registry, node) ==
  [k \in (DOMAIN registry) \cup {node.id} |->
     IF k = node.id THEN node ELSE registry[k]]

\* EntryReport that does not mark the node as in flight.
EntryReport_NotInFlight(op) ==
  Spread(op.node, [inFlight |-> FALSE,
                   existsOnCMS |-> (op.verb # "create"),
                   published |-> (op.verb # "create")])

\* The node a worker sends on entry to `running`.
EntryReport(op) ==
  Spread(op.node, [inFlight |-> TRUE,
                   existsOnCMS |-> (op.verb # "create"),
                   published |-> (op.verb # "create")])

\* PostReport clearing inFlight as soon as the operator call resolved.
PostReport_NotInFlight(op, data) ==
  Spread(Spread(op.node, data),
         [inFlight |-> FALSE,
          existsOnCMS |-> (op.verb = "create"),
          published |-> (op.verb # "create")])

\* The node a worker sends when its operator call resolved with `data`.
PostReport(op, data) ==
  Spread(Spread(op.node, data),
         [inFlight |-> TRUE,
          existsOnCMS |-> (op.verb = "create"),
          published |-> (op.verb # "create")])

\* FinalReport reporting the node published whatever the verb.
FinalReport_AlwaysPublished(op) ==
  Spread(op.node, [inFlight |-> FALSE,
                   existsOnCMS |-> (op.verb = "create"),
                   published |-> TRUE])

\* FinalReport leaving a created node unpublished.
FinalReport_Unpublished(op) ==
  Spread(op.node, [inFlight |-> FALSE,
                   existsOnCMS |-> (op.verb = "create"),
                   published |-> FALSE])

\* FinalReport leaving the node in flight.
FinalReport_StillInFlight(op) ==
  Spread(op.node, [inFlight |-> TRUE,
                   existsOnCMS |-> (op.verb = "create"),
                   published |-> (op.verb = "create")])

\* The node a worker sends when its check succeeded.
FinalReport(op) ==
  Spread(op.node, [inFlight |-> FALSE,
                   existsOnCMS |-> (op.verb = "create"),
                   published |-> (op.verb = "create")])

\* FreeNodes without the inFlight test.
FreeNodes_Any == DOMAIN nodes

\* nodes a pool-mode tick may update: n.inFlight === false
FreeNodes == {i \in DOMAIN nodes : IsFalse(nodes[i], "inFlight")}

\* nodesToDelete without the inFlight test.
nodesToDelete_Published ==
  {i \in DOMAIN nodes : Truthy(nodes[i], "published")}

\* _.pickBy(context.nodes, (node) => node.published && !node.inFlight)
nodesToDelete ==
  {i \in DOMAIN nodes : Truthy(nodes[i], "published") /\ ~Truthy(nodes[i], "inFlight")}

\* UnderLimit with <= for <.
UnderLimit_Inclusive == Len(operations) <= operationsLimit

\* context.operations.length < context.operationsLimit
UnderLimit == Len(operations) < operationsLimit

\* NeedCreate with <= for <.
NeedCreate_Inclusive == Cardinality(DOMAIN nodes) * 2 <= operationsLimit

\* NeedCreate counting only the nodes that are in flight or published.
NeedCreate_Live ==
  Cardinality({i \in DOMAIN nodes :
                 Truthy(nodes[i], "inFlight") \/ Truthy(nodes[i], "published")}) * 2
    < operationsLimit

\* Object.keys(context.nodes).length < context.operationsLimit / 2
NeedCreate == Cardinality(DOMAIN nodes) * 2 < operationsLimit

\* Spawning a worker: it is appended to operations, it starts, and the node it
\* sends on entry is merged into the registry.
Spawn(op) ==
  /\ operations' = Append(operations, op)
  /\ sent' = Append(sent, <<EntryReport(op)>>)
  /\ instants' = Append(instants, [spawned |-> now, resolved |-> Undefined,
                                   succeeded |-> Undefined])
  /\ nodes' = NODE_UPDATED(nodes, EntryReport(op))

NoSpawn == UNCHANGED <<operations, sent, instants, nodes, idCounter>>

\* The engine enters `done` (running its entry action) or stays in `running`.
Settle ==
  /\ engineState' = always(operations', operationsLimit)
  /\ statsRuns' = IF engineState' = "done" THEN statsRuns + 1 ELSE statsRuns

TICK ==
  /\ engineState = "running"
  /\ IF UnderLimit
       THEN IF nodePoolMode
              THEN IF FreeNodes # {}
                     THEN /\ idCounter' = idCounter + 1
                          /\ Spawn(createOperationMachine(
                                     <<"update", idCounter + 1>>, "update",
                                     nodes[FirstKey(FreeNodes)]))
                     ELSE NoSpawn
              ELSE IF NeedCreate
                     THEN /\ idCounter' = idCounter + 1
                          /\ Spawn(createOperationMachine(
                                     <<"create", idCounter + 1>>, "create",
                                     [id |-> idCounter + 1]))
                     ELSE IF nodesToDelete # {}
                            THEN /\ UNCHANGED idCounter
                                 /\ Spawn(createOperationMachine(
                                            <<"delete", FirstKey(nodesToDelete)>>, "delete",
                                            nodes[FirstKey(nodesToDelete)]))
                            ELSE NoSpawn
       ELSE NoSpawn
  /\ Settle
  /\ UNCHANGED <<operationsLimit, nodePoolMode, nodePool, now, harness>>

\* The engine receives a NODE_UPDATED: it merges the node and re-evaluates
\* `always`.  In `done` (final) the interpreter is stopped and drops events.
Receive(node) ==
  IF engineState = "running"
    THEN /\ nodes' = NODE_UPDATED(nodes, node)
         /\ Settle
    ELSE UNCHANGED <<nodes, engineState, statsRuns>>

\* ----------------------------------------------------------------- workers
Workers == 1..Len(operations)

\* What the invoked operator promise resolves with: the response of
\* operators.create / operators.update, or context.node for a delete.
OperatorData(op) == IF op.verb = "delete" THEN {op.node} ELSE Responses

\* What the check collaborator may answer to this worker.
CheckResults(op) == IF op.verb = "delete" THEN NotFoundResults ELSE DeployedResults

\* The success condition of the polling loop of `checking`.
CheckPassed(op, res) ==
  IF op.verb = "delete"
    THEN res.statusCode = 404
    ELSE /\ res.statusCode = 200
         /\ "value" \in DOMAIN res
         /\ res.value = toString(op.node.value)

\* onDone going straight to `completed`.
onDoneTarget_Completed == "completed"

\* running.invoke.onDone.target
onDoneTarget == "checking"

\* running.invoke.onDone: the operator call of worker i resolved with `data`.
onDone(i, data) ==
  LET op == operations[i] IN
  /\ op.state = "running"
  /\ data \in OperatorData(op)
  /\ operations' = [operations EXCEPT ![i] =
       [op EXCEPT !.state = onDoneTarget,
                  !.node = Spread(op.node, data),
                  !.createdAt = op.staticNow]]
  /\ sent' = [sent EXCEPT ![i] = Append(@, PostReport(op, data))]
  /\ instants' = [instants EXCEPT ![i].resolved = now]
  /\ Receive(PostReport(op, data))
  /\ UNCHANGED <<operationsLimit, nodePoolMode, nodePool, idCounter, now, harness>>

\* running.invoke.onError: the operator call of worker i rejected.  The worker
\* sends no node; its done event makes the engine re-evaluate `always`.
onError(i) ==
  LET op == operations[i] IN
  /\ op.state = "running"
  /\ operations' = [operations EXCEPT ![i] =
       [op EXCEPT !.state = "failure", !.error = "rejected"]]
  /\ IF engineState = "running" THEN Settle ELSE UNCHANGED <<engineState, statsRuns>>
  /\ UNCHANGED <<nodes, sent, instants, operationsLimit, nodePoolMode, nodePool,
                 idCounter, now, harness>>

\* checkCount incremented twice for one failed check.
IncrementCount_Twice(op) == op.checkCount + 2

\* checkCount: (context) => (context.checkCount += 1)
IncrementCount(op) == op.checkCount + 1

\* checks: (context, event) => [...context.checks, event.res], event.res being
\* { ...res, timestamp: Date.now() }
AppendCheck(op, res) == Append(op.checks, Spread(res, [timestamp |-> now]))

\* checking.on.FAILED_CHECK: the polling loop saw a result that does not pass.
FAILED_CHECK(i, res) ==
  LET op == operations[i] IN
  /\ op.state = "checking"
  /\ op.checkCount < MaxChecks
  /\ res \in CheckResults(op)
  /\ ~CheckPassed(op, res)
  /\ operations' = [operations EXCEPT ![i] =
       [op EXCEPT !.checks = AppendCheck(op, res),
                  !.checkCount = IncrementCount(op)]]
  /\ UNCHANGED <<engineState, nodes, sent, instants, statsRuns, operationsLimit,
                 nodePoolMode, nodePool, idCounter, now, harness>>

\* checking.on.SUCCESS: the polling loop saw a result that passes.
SUCCESS(i, res) ==
  LET op == operations[i] IN
  /\ op.state = "checking"
  /\ res \in CheckResults(op)
  /\ CheckPassed(op, res)
  /\ operations' = [operations EXCEPT ![i] =
       [op EXCEPT !.state = "completed",
                  !.completedAt = op.staticNow,
                  !.latency = now - op.createdAt]]
  /\ sent' = [sent EXCEPT ![i] = Append(@, FinalReport(op))]
  /\ instants' = [instants EXCEPT ![i].succeeded = now]
  /\ Receive(FinalReport(op))
  /\ UNCHANGED <<operationsLimit, nodePoolMode, nodePool, idCounter, now, harness>>

\* Time passes.
Advance ==
  /\ now < MaxTime
  /\ now' = now + 1
  /\ UNCHANGED <<engineState, operations, nodes, operationsLimit, nodePoolMode,
                 nodePool, idCounter, statsRuns, sent, instants, harness>>

\* ------------------------------------------------------------ specification
HarnessIdle ==
  [before |-> <<>>, node |-> [id |-> 0], applied |-> 0, once |-> <<>>, registry |-> <<>>]

\* run(config): the configuration is a seed pool of 0..MaxPool nodes (a
\* non-empty pool switches pool mode on) and an operationsLimit.
Init ==
  /\ \E k \in 0..MaxPool : \E given \in [1..k -> BOOLEAN] :
       nodePool = [i \in 1..k |-> SeedNode(i, given[i])]
  /\ operationsLimit \in 0..(IF Len(nodePool) = 0 THEN MaxLimit ELSE PoolLimit)
  /\ nodePoolMode = HasNodePool(nodePool)
  /\ nodes = IF nodePoolMode THEN SeedRegistry(nodePool) ELSE <<>>
  /\ operations = <<>>
  /\ sent = <<>>
  /\ instants = <<>>
  /\ idCounter = 0
  /\ now = 0
  /\ engineState = always(<<>>, operationsLimit)
  /\ statsRuns = IF readyToBeDone(<<>>, operationsLimit) THEN 1 ELSE 0
  /\ harness = HarnessIdle

Next ==
  \/ TICK
  \/ \E i \in Workers : \E data \in OperatorData(operations[i]) : onDone(i, data)
  \/ \E i \in Workers : onError(i)
  \/ \E i \in Workers : \E res \in CheckResults(operations[i]) : FAILED_CHECK(i, res)
  \/ \E i \in Workers : \E res \in CheckResults(operations[i]) : SUCCESS(i, res)

\* Runs in which no time is observed to pass (every Date.now() reads 0).
Spec == Init /\ [][Next]_vars

\* Runs in which time passes between the handlers.
TimedInit == Init /\ operationsLimit <= TimedLimit /\ Len(nodePool) <= 1

TimedNext == Next \/ Advance

TimedSpec == TimedInit /\ [][TimedNext]_vars

\* Runs that do not stop while a handler can still change the state: the timer
\* keeps firing, pending operator calls settle and polling loops go on.
FairSpec == Init /\ [][Next]_vars /\ WF_vars(Next)

\* Runs of a lifecycle-mode engine whose operator calls all resolve and whose
\* checks eventually pass: the timer keeps ticking, and while operator calls
\* are pending one of them resolves, while polling loops run one of them sees
\* a passing result.  The check collaborator answers at most MaxChecks results
\* that do not pass in the whole run.
LiveInit == Init /\ Len(nodePool) = 0

RECURSIVE FailedChecks(_)
FailedChecks(n) == IF n = 0 THEN 0 ELSE operations[n].checkCount + FailedChecks(n - 1)

LiveNext ==
  \/ TICK
  \/ \E i \in Workers : \E data \in OperatorData(operations[i]) : onDone(i, data)
  \/ /\ FailedChecks(Len(operations)) < MaxChecks
     /\ \E i \in Workers : \E res \in CheckResults(operations[i]) : FAILED_CHECK(i, res)
  \/ \E i \in Workers : \E res \in CheckResults(operations[i]) : SUCCESS(i, res)

LiveSpec ==
  /\ LiveInit
  /\ [][LiveNext]_vars
  /\ WF_vars(TICK)
  /\ WF_vars(\E i \in Workers : \E data \in OperatorData(operations[i]) : onDone(i, data))
  /\ WF_vars(\E i \in Workers : \E res \in CheckResults(operations[i]) : SUCCESS(i, res))

\* The NODE_UPDATED merge applied in isolation: a registry over HarnessIds and
\* a reported node are drawn, and the same report is merged MergeTimes times.
HarnessIds == 1..2

HarnessFields ==
  {[inFlight |-> b, existsOnCMS |-> e, published |-> e] : b, e \in BOOLEAN}
    \cup {[inFlight |-> b, existsOnCMS |-> TRUE, published |-> b,
           pagePath |-> "/p", selector |-> "h1", value |-> [t |-> "number", v |-> 1]]
            : b \in BOOLEAN}

HarnessNodes(i) == {Spread([id |-> i], f) : f \in HarnessFields}

HarnessRegistries ==
  UNION {{r \in [D -> UNION {HarnessNodes(i) : i \in HarnessIds}] :
            \A k \in D : r[k].id = k} : D \in SUBSET HarnessIds}

MergeInit ==
  /\ engineState = "running"
  /\ operations = <<>>
  /\ sent = <<>>
  /\ instants = <<>>
  /\ nodes = <<>>
  /\ nodePool = <<>>
  /\ nodePoolMode = FALSE
  /\ operationsLimit = 1
  /\ idCounter = 0
  /\ now = 0
  /\ statsRuns = 0
  /\ \E r \in HarnessRegistries : \E i \in 1..3 : \E n \in HarnessNodes(i) :
       harness = [before |-> r, node |-> n, applied |-> 0, once |-> r, registry |-> r]

MergeApply ==
  /\ harness.applied < MergeTimes
  /\ harness' =
       [harness EXCEPT
          !.registry = NODE_UPDATED(harness.registry, harness.node),
          !.applied = harness.applied + 1,
          !.once = IF harness.applied = 0
                     THEN NODE_UPDATED(harness.registry, harness.node)
                     ELSE harness.once]
  /\ UNCHANGED <<engineState, operations, nodes, operationsLimit, nodePoolMode,
                 nodePool, idCounter, now, statsRuns, sent, instants>>

MergeNext == MergeApply

MergeSpec == MergeInit /\ [][MergeNext]_vars

TypeOK ==
  /\ engineState \in {"running", "done"}
  /\ Len(operations) = Len(sent)
  /\ \A i \in Workers : operations[i].state \in {"running", "checking", "completed", "failure"}

\* ------------------------------------------------------------------ claims
Verbs(ops) == [i \in 1..Len(ops) |-> ops[i].verb]
CountVerb(ops, verb) == Cardinality({i \in 1..Len(ops) : ops[i].verb = verb})
AllCompleted(ops) == \A i \in 1..Len(ops) : ops[i].state = "completed"
LifecycleMode == Len(nodePool) = 0
PoolMode == Len(nodePool) > 0
SeedIds == {nodePool[i].id : i \in 1..Len(nodePool)}

\* C1: operations never holds more than operationsLimit workers; a step adds at
\* most one worker, only at the end of the list, only when operations.length <
\* operationsLimit held before the step, and without touching the workers
\* already there (it is a tick); no step removes or reorders a worker.
C1_TickAppendsAtMostOne ==
  /\ [](Len(operations) <= operationsLimit)
  /\ [][/\ Len(operations') \in {Len(operations), Len(operations) + 1}
        /\ \A i \in 1..Len(operations) :
             /\ operations'[i].id = operations[i].id
             /\ operations'[i].verb = operations[i].verb
        /\ Len(operations') = Len(operations) + 1 =>
             /\ Len(operations) < operationsLimit
             /\ engineState = "running"
             /\ SubSeq(operations', 1, Len(operations)) = operations]_vars

\* C1 witness: the cap is reached with several workers while the engine still runs.
C1_Witness ==
  /\ engineState = "running"
  /\ operationsLimit >= 2
  /\ Len(operations) = operationsLimit

\* C2: the engine is in `done` exactly when operationsLimit workers were
\* spawned and every one of them is `completed`.
C2_DoneIff ==
  engineState = "done" <=>
    (Len(operations) = operationsLimit /\ AllCompleted(operations))

\* C2 witness: a run that spawned workers has entered done.
C2_Witness == engineState = "done" /\ Len(operations) >= 2

\* C3: while some worker is in `failure` the engine is not in `done`, and a
\* worker in `failure` stays there, so the engine never reaches `done` after a
\* failure.
C3_FailureBlocksDone ==
  /\ []((\E i \in Workers : operations[i].state = "failure") => engineState # "done")
  /\ [][\A i \in Workers :
          operations[i].state = "failure" => operations'[i].state = "failure"]_vars

\* C3 witness: the cap is reached, one worker failed and all the others completed.
C3_Witness ==
  /\ Len(operations) = operationsLimit
  /\ operationsLimit >= 2
  /\ \E i \in Workers :
       /\ operations[i].state = "failure"
       /\ \A j \in Workers \ {i} : operations[j].state = "completed"

\* floor(n / 2) and ceil(n / 2)
HalfDown(n) == n \div 2
HalfUp(n) == (n + 1) \div 2

\* C4 as stated: in lifecycle mode never more than floor(operationsLimit/2)
\* creates are spawned, and exactly that many once a delete is spawned or the
\* run is done.
C4_Original ==
  LifecycleMode =>
    /\ CountVerb(operations, "create") <= HalfDown(operationsLimit)
    /\ (CountVerb(operations, "delete") > 0 \/ engineState = "done") =>
         CountVerb(operations, "create") = HalfDown(operationsLimit)

\* C4 amended: in lifecycle mode never more than ceil(operationsLimit/2)
\* creates are spawned, and exactly that many once a delete is spawned or the
\* run is done (which is floor(operationsLimit/2) when operationsLimit is even).
C4_CreatesHalfRoundedUp ==
  LifecycleMode =>
    /\ CountVerb(operations, "create") <= HalfUp(operationsLimit)
    /\ (CountVerb(operations, "delete") > 0 \/ engineState = "done") =>
         CountVerb(operations, "create") = HalfUp(operationsLimit)

\* C4 witness: an odd limit whose first delete has been spawned.
C4_Witness ==
  /\ LifecycleMode
  /\ operationsLimit = 3
  /\ CountVerb(operations, "delete") = 1
  /\ CountVerb(operations, "create") = 2

\* C5: in lifecycle mode no create follows a delete in operations.
C5_CreateBeforeDelete ==
  LifecycleMode =>
    \A i, j \in Workers :
      (i < j /\ operations[i].verb = "delete") => operations[j].verb # "create"

\* C5 witness: two deletes were spawned after the creates.
C5_Witness ==
  /\ LifecycleMode
  /\ CountVerb(operations, "delete") = 2
  /\ CountVerb(operations, "create") = 2

\* C6: in pool mode a step that spawns a worker targets a node whose registry
\* record had inFlight = false before the step, and when every registry node
\* has inFlight = true no worker is spawned.
C6_PoolSpawnsOnlyFree ==
  [][PoolMode =>
       /\ Len(operations') > Len(operations) =>
            LET id == operations'[Len(operations')].node.id IN
            /\ id \in DOMAIN nodes
            /\ nodes[id].inFlight = FALSE
       /\ (\A k \in DOMAIN nodes : nodes[k].inFlight = TRUE) =>
            Len(operations') = Len(operations)]_vars

\* C6 witness: under the cap, every node of a pool of two is in flight while
\* workers have been spawned.
C6_Witness ==
  /\ PoolMode
  /\ engineState = "running"
  /\ Cardinality(DOMAIN nodes) = 2
  /\ Len(operations) >= 2
  /\ Len(operations) < operationsLimit
  /\ \A k \in DOMAIN nodes : nodes[k].inFlight = TRUE

C8_MergeIdempotent ==
  harness.applied >= 1 =>
    /\ harness.registry = harness.once
    /\ DOMAIN harness.once = (DOMAIN harness.before) \cup {harness.node.id}
    /\ harness.once[harness.node.id] = harness.node
    /\ \A k \in (DOMAIN harness.before) \ {harness.node.id} :
         harness.once[k] = harness.before[k]

\* C8 witness: a report was merged twice over a record of the same id that
\* had fields the report lacks, next to a record of another id.
C8_Witness ==
  /\ harness.applied = 2
  /\ harness.node.id \in DOMAIN harness.before
  /\ (DOMAIN harness.before[harness.node.id]) \ (DOMAIN harness.node) # {}
  /\ DOMAIN harness.before # {harness.node.id}

C10_LifecycleTerminates ==
  /\ <>(engineState = "done")
  /\ [](engineState = "done" =>
          /\ Len(operations) = operationsLimit
          /\ AllCompleted(operations)
          /\ operationsLimit = 4 =>
               Verbs(operations) = <<"create", "create", "delete", "delete">>)

\* C10 witness: a run with operationsLimit = 4 is done.
C10_Witness ==
  /\ LifecycleMode
  /\ operationsLimit = 4
  /\ engineState = "done"
  /\ Len(operations) = 4

\* the last element of a non-empty sequence
Last(seq) == seq[Len(seq)]

\* C11 as stated: the node a completed worker sent last has inFlight = false;
\* for create existsOnCMS = true and published = true, for update and delete
\* existsOnCMS = false and published = true.
C11_Original ==
  \A i \in Workers :
    operations[i].state = "completed" =>
      /\ Last(sent[i]).inFlight = FALSE
      /\ operations[i].verb = "create" =>
           Last(sent[i]).existsOnCMS = TRUE /\ Last(sent[i]).published = TRUE
      /\ operations[i].verb # "create" =>
           Last(sent[i]).existsOnCMS = FALSE /\ Last(sent[i]).published = TRUE

\* C11 amended: the node a completed worker sent last has inFlight = false;
\* for create existsOnCMS = true and published = true, for update and delete
\* existsOnCMS = false and published = false (published differs from the
\* report sent after the operator call, which has published = true).
C11_FinalSnapshot ==
  \A i \in Workers :
    operations[i].state = "completed" =>
      /\ Last(sent[i]).inFlight = FALSE
      /\ operations[i].verb = "create" =>
           Last(sent[i]).existsOnCMS = TRUE /\ Last(sent[i]).published = TRUE
      /\ operations[i].verb # "create" =>
           /\ Last(sent[i]).existsOnCMS = FALSE
           /\ Last(sent[i]).published = FALSE
           /\ sent[i][Len(sent[i]) - 1].published = TRUE

\* C11 witness: a create and a delete have completed.
C11_Witness ==
  /\ \E i \in Workers : operations[i].state = "completed" /\ operations[i].verb = "create"
  /\ \E i \in Workers : operations[i].state = "completed" /\ operations[i].verb = "delete"

\* C12: a worker in `failure` has recorded the error and has sent only its
\* entry report; the registry record of its node is still that report, with
\* inFlight = true, and no worker spawned after it targets the same node.
C12_FailureKeepsNodeInFlight ==
  \A i \in Workers :
    operations[i].state = "failure" =>
      /\ operations[i].error = "rejected"
      /\ Len(sent[i]) = 1
      /\ operations[i].node.id \in DOMAIN nodes
      /\ nodes[operations[i].node.id] = sent[i][1]
      /\ nodes[operations[i].node.id].inFlight = TRUE
      /\ \A j \in Workers : j > i => operations[j].node.id # operations[i].node.id

\* C12 witness: a worker failed and two workers were spawned after it, one of
\* which has completed.
C12_Witness ==
  \E i \in Workers :
    /\ operations[i].state = "failure"
    /\ Len(operations) >= i + 2
    /\ \E j \in Workers : j > i /\ operations[j].state = "completed"

\* C13: for every completed worker createdAt is the instant its operator call
\* resolved, completedAt is the instant its passing check was processed, and
\* latency = completedAt - createdAt.
C13_LatencyFromOperatorResolution ==
  \A i \in Workers :
    operations[i].state = "completed" =>
      /\ operations[i].createdAt = instants[i].resolved
      /\ operations[i].completedAt = instants[i].succeeded
      /\ operations[i].latency = operations[i].completedAt - operations[i].createdAt

\* C14: no step removes an id from the registry, and the record of a node
\* whose delete has completed is present with published, existsOnCMS and
\* inFlight all false.
C14_RegistryNeverShrinks ==
  /\ [][(DOMAIN nodes) \subseteq (DOMAIN nodes')]_vars
  /\ [](\A i \in Workers :
          (operations[i].verb = "delete" /\ operations[i].state = "completed") =>
            /\ operations[i].node.id \in DOMAIN nodes
            /\ nodes[operations[i].node.id].published = FALSE
            /\ nodes[operations[i].node.id].existsOnCMS = FALSE
            /\ nodes[operations[i].node.id].inFlight = FALSE)

\* C14 witness: a delete has completed and the registry holds two ids.
C14_Witness ==
  /\ Cardinality(DOMAIN nodes) = 2
  /\ \E i \in Workers : operations[i].verb = "delete" /\ operations[i].state = "completed"

NonTerminal(op) == op.state \in {"running", "checking"}

\* C15: two workers that are both running or checking target different nodes,
\* and a worker targets the node of a worker spawned before it only when that
\* earlier worker has completed.
C15_OneWorkerPerNode ==
  \A i, j \in Workers :
    (i < j /\ operations[i].node.id = operations[j].node.id) =>
      /\ operations[i].state = "completed"
      /\ ~(NonTerminal(operations[i]) /\ NonTerminal(operations[j]))

\* C15 witness: a worker is running or checking on the node of an earlier,
\* completed worker while another worker is running or checking on another node.
C15_Witness ==
  \E i, j, k \in Workers :
    /\ i < j
    /\ operations[i].node.id = operations[j].node.id
    /\ NonTerminal(operations[j])
    /\ NonTerminal(operations[k])
    /\ operations[k].node.id # operations[j].node.id

\* the workers that target node k, and the report emitted last for node k
WorkersOn(k) == {i \in Workers : operations[i].node.id = k}
LatestReport(k) ==
  Last(sent[CHOOSE j \in WorkersOn(k) : \A i \in WorkersOn(k) : i <= j])

\* the registry record of a node is not the report emitted last for it
Stale(k) == WorkersOn(k) # {} /\ nodes[k] # LatestReport(k)

\* the workers that emit a report in a step
Emitting == {i \in 1..Len(sent') : i > Len(sent) \/ sent'[i] # sent[i]}

C17_WorkerTransitions ==
  [][\A i \in Workers :
       LET o == operations[i]
           p == operations'[i] IN
       /\ p.state # o.state =>
            <<o.state, p.state>> \in {<<"running", "checking">>,
                                      <<"running", "failure">>,
                                      <<"checking", "completed">>}
       /\ p.checkCount # o.checkCount => (o.state = "checking" /\ p.state = "checking")]_vars

\* C17 witness: workers have reached completed (after a failed check) and failure.
C17_Witness ==
  /\ \E i \in Workers : operations[i].state = "completed" /\ operations[i].checkCount = 1
  /\ \E i \in Workers : operations[i].state = "failure"

\* The number of reports a worker in the given state has sent.
ReportsSent(state) ==
  CASE state = "running"   -> 1
    [] state = "failure"   -> 1
    [] state = "checking"  -> 2
    [] state = "completed" -> 3

C19_DoneIsTerminal ==
  /\ [](/\ statsRuns = (IF engineState = "done" THEN 1 ELSE 0)
        /\ engineState = "done" => AllCompleted(operations))
  /\ [][engineState = "done" =>
          UNCHANGED <<operations, nodes, engineState, statsRuns>>]_vars

\* C19 witness: the engine is in done after a run with a create and a delete.
C19_Witness ==
  /\ engineState = "done"
  /\ statsRuns = 1
  /\ \E i, j \in Workers : operations[i].verb = "create" /\ operations[j].verb = "delete"

\* C20: in lifecycle mode two workers on the same node are never both creates
\* nor both deletes; every delete worker comes after a create worker of the
\* same node, and that create worker is completed (it was when the delete was
\* spawned, completed being final); the operation ids are pairwise distinct.
C20_NodeLifecycle ==
  LifecycleMode =>
    /\ \A i, j \in Workers :
         i < j =>
           /\ operations[i].id # operations[j].id
           /\ operations[i].node.id = operations[j].node.id =>
                operations[i].verb # operations[j].verb
    /\ \A j \in Workers :
         operations[j].verb = "delete" =>
           \E i \in 1..(j - 1) :
             /\ operations[i].verb = "create"
             /\ operations[i].node.id = operations[j].node.id
             /\ operations[i].state = "completed"

\* C20 witness: a node is being deleted after its create completed, while the
\* create of another node has not converged.
C20_Witness ==
  /\ LifecycleMode
  /\ \E i, j, k \in Workers :
       /\ i < j
       /\ operations[i].verb = "create"
       /\ operations[j].verb = "delete"
       /\ operations[i].node.id = operations[j].node.id
       /\ operations[k].verb = "create"
       /\ NonTerminal(operations[k])

====
